---- MODULE Spec2Model ----
(***************************************************************************)
(* Model of the CSI telemetry pipeline: the brace-counting JSON framer of  *)
(* DataAcquisition.run (data_acquisition.py) and the lock-protected device *)
(* table of DeviceStatus (device_status.py).                               *)
(*                                                                         *)
(* Framer alphabet.  One model character stands for one JSON token: the    *)
(* two braces, a string literal "s", the colon and the comma.  String      *)
(* literals are taken to contain no braces.                                *)
(***************************************************************************)
EXTENDS Integers, Sequences, FiniteSets, TLC

\* ------------------------------------------------------------------ bounds
MAX_BUFFER_LEN == 4     \* max_buffer_len handed to DataAcquisition.__init__
MaxStream == 7          \* characters read from one serial port
MAX_CSI_FRAMES == 3     \* capacity of a device's CSI deque
MaxUpdates == 3         \* update_device calls in the sync model
MaxCsiUpdates == 5      \* update_device calls in the CSI history model
MaxCalls == 2           \* calls per thread in the locking model
MaxEmit == 2            \* records one port delivers in the pipeline model
MIN_PACKETS == 1        \* min_packets handed to wait_for_packets
MaxTicks == 2           \* passes of the RadarAnalyzer.run loop
MaxAnaUpdates == 3      \* update_device calls in the analysis model
MaxReads == 2           \* update_plots calls in the analysis model
MaxSubUpdates == 4      \* update_device calls in the subcarrier model

VARIABLES
  \* DataAcquisition.run locals and the shared queue
  stream,               \* every character read so far (history)
  buffer,               \* buffer
  brace_level,          \* brace_level
  data_queue,           \* self.data_queue
  dec_event,            \* what the last character made the framer do
  reset_seen,           \* a reset event happened at some point
  since_reset           \* characters read after the last reset event

decoderVars == <<stream, buffer, brace_level, data_queue, dec_event,
                 reset_seen, since_reset>>

VARIABLES
  \* DeviceStatus
  devices,              \* self.devices: device id -> device dict
  master_sync_history,  \* self.master_sync_history: sync count -> timestamp
  heap,                 \* the CSI frame objects, by object identity
  lock,                 \* self.lock: "free" or the thread holding it
  \* observation of update_device
  csi_log,              \* per device, every frame ever appended, in order
  last_call,            \* the last update_device call and what it printed
  n_updates             \* update_device calls made

storeVars == <<devices, master_sync_history, heap, lock, csi_log, last_call,
               n_updates>>

VARIABLES
  \* the thread calling update_device and the thread calling get_all_devices
  w_pc, w_dev, w_data, w_calls,
  r_pc, r_snap, r_calls,
  snapshot,             \* the value get_all_devices returned last
  committed,            \* the table as the last whole update_device left it
  snap_base             \* committed, at the time the snapshot was returned

threadVars == <<w_pc, w_dev, w_data, w_calls, r_pc, r_snap, r_calls,
                snapshot, committed, snap_base>>

VARIABLES
  \* main.py: the ingestion threads, the dispatcher thread and main itself
  sent,                 \* per port, records put on the queue so far
  src_pc,               \* per port, where DataAcquisition.run stands
  src_stop,             \* per port, self._stop_event
  device_coords,        \* None until main binds it, then Some(its keys)
  c_pc,                 \* where consumer_loop stands
  stop_flag,            \* stop_flag
  disp_log,             \* every record dequeued and what became of it
  frame_origin          \* per frame object, the port and number of its record

pipeVars == <<sent, src_pc, src_stop, device_coords, c_pc, stop_flag,
              disp_log, frame_origin>>

VARIABLES
  m_pc,                 \* where main stands
  blocks                \* per task, blocking calls finished after its stop signal

mainVars == <<m_pc, blocks>>

VARIABLES
  \* RadarAnalyzer and the plot callback reading its results
  a_pc, a_stop, a_snapshot, a_idx, a_pending, a_tick,
  subcarrier_data,      \* self.subcarrier_data
  motion_scores,        \* self.motion_scores
  tick_out,             \* per device, what the current tick did with it
  pub_at_start,         \* the published results when the current tick began
  plot_pc, plot_seen, n_reads

anaVars == <<a_pc, a_stop, a_snapshot, a_idx, a_pending, a_tick,
             subcarrier_data, motion_scores, tick_out, pub_at_start,
             plot_pc, plot_seen, n_reads>>

newVars == <<pipeVars, mainVars, anaVars>>

framerVars == <<stream, buffer, brace_level, dec_event, reset_seen, since_reset>>

lockVars == <<lock, w_pc, w_dev, w_data, w_calls, r_pc, r_snap, r_calls,
              snapshot, snap_base>>

vars == <<decoderVars, storeVars, threadVars, pipeVars, mainVars, anaVars>>

\* ------------------------------------------------------------ option type
None == <<>>
Some(x) == <<x>>

Last(s) == s[Len(s)]

\* ================================================================ framer
Chars == {"{", "}", "s", ":", ","}
PORT == "/dev/ttyUSB0"

JsonString == [kind |-> "str", m |-> <<>>]
JsonObject(members) == [kind |-> "obj", m |-> members]
ParseFail == [ok |-> FALSE, val |-> JsonString, next |-> 0]

\* json.loads on a token sequence.  An object holds at most one distinct
\* key (the only string literal is "s"); a repeated key keeps the last value,
\* as a Python dict does.
RECURSIVE ParseValue(_, _)
RECURSIVE ParseMembers(_, _)
ParseValue(w, i) ==
  IF i > Len(w) THEN ParseFail
  ELSE IF w[i] = "s" THEN [ok |-> TRUE, val |-> JsonString, next |-> i + 1]
  ELSE IF w[i] = "{" THEN
    IF i + 1 <= Len(w) /\ w[i + 1] = "}"
      THEN [ok |-> TRUE, val |-> JsonObject(<<>>), next |-> i + 2]
      ELSE ParseMembers(w, i + 1)
  ELSE ParseFail

ParseMembers(w, i) ==
  IF i + 1 <= Len(w) /\ w[i] = "s" /\ w[i + 1] = ":" THEN
    LET v == ParseValue(w, i + 2) IN
      IF ~v.ok THEN ParseFail
      ELSE IF v.next <= Len(w) /\ w[v.next] = "," THEN ParseMembers(w, v.next + 1)
      ELSE IF v.next <= Len(w) /\ w[v.next] = "}"
        THEN [ok |-> TRUE, val |-> JsonObject(<<v.val>>), next |-> v.next + 1]
      ELSE ParseFail
  ELSE ParseFail

json_loads(w) ==
  LET r == ParseValue(w, 1) IN
    IF r.ok /\ r.next = Len(w) + 1 THEN r ELSE ParseFail

\* data["__port__"] = self.port
Tagged(port, val) == [port |-> port, data |-> val]

\* One iteration of "for char in line" (lines 37-68).
OpenBrace(buf, lvl) ==
  [buffer |-> Append(IF lvl = 0 THEN <<>> ELSE buf, "{"),
   brace_level |-> lvl + 1, out |-> <<>>, event |-> "none"]

CloseBrace(buf, lvl) ==
  LET b == Append(buf, "}")
      r == json_loads(b)
  IN IF lvl - 1 = 0
       THEN IF r.ok
              THEN [buffer |-> <<>>, brace_level |-> 0,
                    out |-> <<Tagged(PORT, r.val)>>, event |-> "emit"]
              ELSE [buffer |-> <<>>, brace_level |-> 0,
                    out |-> <<>>, event |-> "decode_fail"]
       ELSE [buffer |-> b, brace_level |-> lvl - 1, out |-> <<>>, event |-> "none"]

Overflows(b) == Len(b) > MAX_BUFFER_LEN

OtherChar(buf, lvl, ch) ==
  IF lvl > 0
    THEN LET b == Append(buf, ch) IN
         IF Overflows(b)
           THEN [buffer |-> <<>>, brace_level |-> 0, out |-> <<>>, event |-> "overflow"]
           ELSE [buffer |-> b, brace_level |-> lvl, out |-> <<>>, event |-> "none"]
    ELSE [buffer |-> buf, brace_level |-> lvl, out |-> <<>>, event |-> "none"]

DecodeChar(buf, lvl, ch) ==
  IF ch = "{" THEN OpenBrace(buf, lvl)
  ELSE IF ch = "}" THEN CloseBrace(buf, lvl)
  ELSE OtherChar(buf, lvl, ch)

\* Number of '{' still open at the end of w.
RECURSIVE OpenBraces(_)
OpenBraces(w) ==
  IF w = <<>> THEN 0
  ELSE OpenBraces(SubSeq(w, 1, Len(w) - 1))
       + (IF Last(w) = "{" THEN 1 ELSE IF Last(w) = "}" THEN -1 ELSE 0)

\* A '}' read while no '{' read since the last reset is still open.
StrayClose(since, ch) == ch = "}" /\ OpenBraces(since) = 0

IsReset(since, ch, event) ==
  event \in {"overflow", "decode_fail"} \/ StrayClose(since, ch)

DecoderIdle ==
  /\ stream = <<>>
  /\ buffer = <<>>
  /\ brace_level = 0
  /\ data_queue = <<>>
  /\ dec_event = "none"
  /\ reset_seen = FALSE
  /\ since_reset = <<>>

FeedChar(ch) ==
  LET r == DecodeChar(buffer, brace_level, ch) IN
  /\ Len(stream) < MaxStream
  /\ stream' = Append(stream, ch)
  /\ buffer' = r.buffer
  /\ brace_level' = r.brace_level
  /\ data_queue' = data_queue \o r.out
  /\ dec_event' = r.event
  /\ reset_seen' = (reset_seen \/ IsReset(since_reset, ch, r.event))
  /\ since_reset' = IF IsReset(since_reset, ch, r.event) THEN <<>>
                    ELSE Append(since_reset, ch)
  /\ UNCHANGED <<storeVars, threadVars, newVars>>

\* ========================================================== DeviceStatus
MASTER_ID == "E8:9C:25:06:E9:80"
SLAVE_ID == "E9:9C:25:06:E9:80"
DeviceIds == {MASTER_ID, SLAVE_ID}

DRIFT_THRESHOLD == 1000000

InfoKeys == <<"IPAddress", "Gateway", "Netmask", "FreeHeap", "FreeInternalHeap">>

Abs(x) == IF x < 0 THEN 0 - x ELSE x

\* A JSON value that may or may not be a list (isinstance(data["CSI"], list)).
JsonList(items) == [type |-> "list", items |-> items]
JsonScalar == [type |-> "scalar", items |-> <<>>]
IsList(v) == v.type = "list"

\* The record handed to update_device: a dict holding the keys present.
RecordOf(sc, ts, rssi, csi, info) ==
  LET keys == (IF sc # None THEN {"SyncCount"} ELSE {})
              \cup (IF ts # None THEN {"Timestamp"} ELSE {})
              \cup (IF rssi # None THEN {"RSSI"} ELSE {})
              \cup (IF csi # None THEN {"CSI"} ELSE {})
              \cup info
  IN [k \in keys |->
        IF k = "SyncCount" THEN sc[1]
        ELSE IF k = "Timestamp" THEN ts[1]
        ELSE IF k = "RSSI" THEN rssi[1]
        ELSE IF k = "CSI" THEN csi[1]
        ELSE IF k \in {"FreeHeap", "FreeInternalHeap"} THEN 4096
        ELSE "192.168.4.1"]

NewDevice ==
  [RSSI |-> None, CSI |-> <<>>,
   IPAddress |-> None, Gateway |-> None, Netmask |-> None,
   FreeHeap |-> None, FreeInternalHeap |-> None,
   SyncCount |-> None, LastSyncTimestamp |-> None, Offset |-> 0]

ensure_device_exists(devs, d) ==
  IF d \in DOMAIN devs THEN devs
  ELSE [x \in DOMAIN devs \cup {d} |-> IF x = d THEN NewDevice ELSE devs[x]]

\* Variant of deque_append: a plain list, nothing is ever dropped.
deque_append_unbounded(q, x) == Append(q, x)

\* deque(maxlen=MAX_CSI_FRAMES).append: a full deque drops its oldest item.
deque_append(q, x) ==
  IF Len(q) >= MAX_CSI_FRAMES THEN Append(Tail(q), x) ELSE Append(q, x)

HasSync(data) == "SyncCount" \in DOMAIN data /\ "Timestamp" \in DOMAIN data

PutSync(hist, sc, ts) ==
  [x \in DOMAIN hist \cup {sc} |-> IF x = sc THEN ts ELSE hist[x]]

\* Variant of SlaveOffset: the subtraction is the wrong way round.
SlaveOffset_swapped(hist, sc, ts, old) ==
  IF sc \in DOMAIN hist THEN ts - hist[sc] ELSE old

\* Variant of SlaveOffset: a missing master timestamp is read as 0.
SlaveOffset_default(hist, sc, ts, old) ==
  IF sc \in DOMAIN hist THEN hist[sc] - ts ELSE 0 - ts

\* Slave branch, lines 55-66: the offset after the record's sync handling.
SlaveOffset(hist, sc, ts, old) ==
  IF sc \in DOMAIN hist THEN hist[sc] - ts ELSE old

\* Variant of DriftWarn: the comparison is not strict.
DriftWarn_inclusive(offset, old_offset) ==
  Abs(offset - old_offset) >= DRIFT_THRESHOLD

DriftWarn(offset, old_offset) == Abs(offset - old_offset) > DRIFT_THRESHOLD

\* The working state of one update_device call: the table, the sync history,
\* the frame objects, the (mutable) record and whether [WARN] was printed.
CallState(devs, hist, hp, data) ==
  [devices |-> devs, msh |-> hist, heap |-> hp, data |-> data, warn |-> FALSE]

\* Variant of MasterSync: the offset computation of the slave branch also
\* runs for the master, against the history as it was before this record.
MasterSync_with_offset(st, d, sc, ts) ==
  [st EXCEPT !.msh = PutSync(@, sc, ts),
             !.devices[d].SyncCount = Some(sc),
             !.devices[d].LastSyncTimestamp = Some(ts),
             !.devices[d].Offset =
                IF sc \in DOMAIN st.msh THEN st.msh[sc] - ts ELSE @]

\* Master branch, lines 45-49.
MasterSync(st, d, sc, ts) ==
  [st EXCEPT !.msh = PutSync(@, sc, ts),
             !.devices[d].SyncCount = Some(sc),
             !.devices[d].LastSyncTimestamp = Some(ts)]

\* Variant of SlaveSync: a change of the offset is also applied to the
\* frames the device's history already holds.
SlaveSync_realigning(st, d, sc, ts) ==
  LET old == st.devices[d].Offset
      new == SlaveOffset(st.msh, sc, ts, old)
      held == {st.devices[d].CSI[i] : i \in 1..Len(st.devices[d].CSI)}
  IN [st EXCEPT !.devices[d].SyncCount = Some(sc),
                !.devices[d].LastSyncTimestamp = Some(ts),
                !.devices[d].Offset = new,
                !.warn = (sc \in DOMAIN st.msh) /\ DriftWarn(new, old),
                !.heap = [i \in 1..Len(st.heap) |->
                            IF i \in held /\ st.heap[i].Timestamp # None
                              THEN [st.heap[i] EXCEPT
                                      !.Timestamp = Some(@[1] + new - old)]
                              ELSE st.heap[i]]]

\* Slave branch, lines 50-66.
SlaveSync(st, d, sc, ts) ==
  LET old == st.devices[d].Offset
      new == SlaveOffset(st.msh, sc, ts, old)
  IN [st EXCEPT !.devices[d].SyncCount = Some(sc),
                !.devices[d].LastSyncTimestamp = Some(ts),
                !.devices[d].Offset = new,
                !.warn = (sc \in DOMAIN st.msh) /\ DriftWarn(new, old)]

\* 1) sync data
SyncStep(st, d) ==
  IF ~HasSync(st.data) THEN st
  ELSE IF d = MASTER_ID
    THEN MasterSync(st, d, st.data["SyncCount"], st.data["Timestamp"])
    ELSE SlaveSync(st, d, st.data["SyncCount"], st.data["Timestamp"])

\* 2) the record's Timestamp is rewritten in place
AdjustStep(st, d) ==
  IF "Timestamp" \in DOMAIN st.data
    THEN [st EXCEPT !.data["Timestamp"] = @ + st.devices[d].Offset]
    ELSE st

\* 3) RSSI
RssiStep(st, d) ==
  IF "RSSI" \in DOMAIN st.data
    THEN [st EXCEPT !.devices[d].RSSI = Some(st.data["RSSI"])]
    ELSE st

\* 4) a new frame object is appended to the deque
AppendsFrame(data) == "CSI" \in DOMAIN data /\ IsList(data["CSI"])

CsiStep(st, d) ==
  IF AppendsFrame(st.data)
    THEN LET csi_entry ==
               [Timestamp |-> IF "Timestamp" \in DOMAIN st.data
                                THEN Some(st.data["Timestamp"]) ELSE None,
                CSI |-> st.data["CSI"].items]
             id == Len(st.heap) + 1
         IN [st EXCEPT !.heap = Append(@, csi_entry),
                       !.devices[d].CSI = deque_append(@, id)]
    ELSE st

\* 5) IP and memory fields
RECURSIVE InfoLoop(_, _, _)
InfoLoop(dev, data, i) ==
  IF i > Len(InfoKeys) THEN dev
  ELSE LET key == InfoKeys[i] IN
       InfoLoop(IF key \in DOMAIN data
                  THEN [dev EXCEPT ![key] = Some(data[key])] ELSE dev,
                data, i + 1)

InfoStep(st, d) == [st EXCEPT !.devices[d] = InfoLoop(@, st.data, 1)]

EnsureStep(st, d) == [st EXCEPT !.devices = ensure_device_exists(@, d)]

\* Variant of update_device: the timestamp is corrected before the sync
\* handling, with the offset the device had before this record.
update_device_adjust_first(st, d) ==
  InfoStep(CsiStep(RssiStep(SyncStep(AdjustStep(EnsureStep(st, d), d), d), d), d), d)

\* The body of update_device, run under the lock.
update_device(st, d) ==
  InfoStep(CsiStep(RssiStep(AdjustStep(SyncStep(EnsureStep(st, d), d), d), d), d), d)

\* One entry of get_all_devices' loop: a new dict, a new list, the same
\* frame objects.
CopyDevice(vals) ==
  [RSSI |-> vals.RSSI,
   IPAddress |-> vals.IPAddress, Gateway |-> vals.Gateway,
   Netmask |-> vals.Netmask,
   FreeHeap |-> vals.FreeHeap, FreeInternalHeap |-> vals.FreeInternalHeap,
   SyncCount |-> vals.SyncCount,
   LastSyncTimestamp |-> vals.LastSyncTimestamp,
   Offset |-> vals.Offset,
   CSI |-> [i \in 1..Len(vals.CSI) |-> vals.CSI[i]]]

get_all_devices(devs) == [d \in DOMAIN devs |-> CopyDevice(devs[d])]

OffsetBefore(devs, d) == IF d \in DOMAIN devs THEN devs[d].Offset ELSE 0

NoCall == [device |-> "", data |-> RecordOf(None, None, None, None, {}),
           old_offset |-> 0, warn |-> FALSE, appended |-> FALSE]

\* What the observer records of a finished call.
Observe(d, data, st) ==
  [device |-> d, data |-> data, old_offset |-> OffsetBefore(devices, d),
   warn |-> st.warn, appended |-> Len(st.heap) > Len(heap)]

LogAppend(log, d, st) ==
  IF Len(st.heap) > Len(heap)
    THEN [x \in DOMAIN log \cup {d} |->
            IF x = d THEN Append(IF d \in DOMAIN log THEN log[d] ELSE <<>>,
                                 Len(st.heap))
            ELSE log[x]]
    ELSE log

StoreIdle ==
  /\ devices = <<>>
  /\ master_sync_history = <<>>
  /\ heap = <<>>
  /\ lock = "free"
  /\ csi_log = <<>>
  /\ last_call = NoCall
  /\ n_updates = 0

ThreadsIdle ==
  /\ w_pc = "idle" /\ w_dev = "" /\ w_calls = 0
  /\ w_data = RecordOf(None, None, None, None, {})
  /\ r_pc = "idle" /\ r_snap = <<>> /\ r_calls = 0
  /\ snapshot = None
  /\ committed = <<>>
  /\ snap_base = <<>>

Ports == {"/dev/ttyUSB0", "/dev/ttyACM0"}
Tasks == Ports \cup {"consumer", "analyzer"}

PipeIdle ==
  /\ sent = [p \in Ports |-> 0]
  /\ src_pc = [p \in Ports |-> "check"]
  /\ src_stop = [p \in Ports |-> FALSE]
  /\ device_coords = None
  /\ c_pc = "check"
  /\ stop_flag = FALSE
  /\ disp_log = <<>>
  /\ frame_origin = <<>>

MainIdle ==
  /\ m_pc = "assign"
  /\ blocks = [t \in Tasks |-> 0]

AnalyzerIdle ==
  /\ a_pc = "off" /\ a_stop = FALSE /\ a_snapshot = <<>> /\ a_idx = 0
  /\ a_pending = None /\ a_tick = 0
  /\ subcarrier_data = <<>>
  /\ motion_scores = <<>>
  /\ tick_out = <<>>
  /\ pub_at_start = [sub |-> <<>>, score |-> <<>>]
  /\ plot_pc = "idle" /\ plot_seen = [score |-> None, sub |-> None]
  /\ n_reads = 0

\* The state when main has started the ingestion threads and the consumer
\* thread (line 68) and has not yet reached line 72.
Init == DecoderIdle /\ StoreIdle /\ ThreadsIdle /\ PipeIdle /\ MainIdle
        /\ AnalyzerIdle

\* ---------------------------------------------- update_device, as a whole
StoreUpdate(d, data) ==
  LET st == update_device(CallState(devices, master_sync_history, heap, data), d) IN
  /\ lock = "free"
  /\ devices' = st.devices
  /\ master_sync_history' = st.msh
  /\ heap' = st.heap
  /\ csi_log' = LogAppend(csi_log, d, st)
  /\ last_call' = Observe(d, data, st)
  /\ n_updates' = n_updates + 1
  /\ committed' = st.devices

UpdateDevice(d, data) ==
  /\ StoreUpdate(d, data)
  /\ UNCHANGED <<newVars, lockVars, decoderVars>>

\* ------------------------------------- update_device and get_all_devices,
\* statement by statement, on two threads sharing self.lock
\* Variant of CanAcquire: the lock is not taken into account.
CanAcquire_unlocked(l) == TRUE

CanAcquire(l) == l = "free"

WCall(d, data) ==
  /\ w_pc = "idle" /\ w_calls < MaxCalls
  /\ w_pc' = "lock" /\ w_dev' = d /\ w_data' = data /\ w_calls' = w_calls + 1
  /\ UNCHANGED <<newVars, decoderVars, storeVars, r_pc, r_snap, r_calls, snapshot,
                 committed, snap_base>>

WAcquire ==
  /\ w_pc = "lock" /\ CanAcquire(lock)
  /\ lock' = "writer"
  /\ w_pc' = "ensure"
  /\ last_call' = [device |-> w_dev, data |-> w_data,
                   old_offset |-> OffsetBefore(devices, w_dev),
                   warn |-> FALSE, appended |-> FALSE]
  /\ UNCHANGED <<newVars, decoderVars, devices, master_sync_history, heap, csi_log,
                 n_updates, w_dev, w_data, w_calls, r_pc, r_snap, r_calls,
                 snapshot, committed, snap_base>>

\* The call's view of the shared table before its next statement.
Work == CallState(devices, master_sync_history, heap, w_data)

\* One statement group of the body: st is the state it leaves.
WStep(from, to, st) ==
  /\ w_pc = from
  /\ w_pc' = to
  /\ devices' = st.devices
  /\ master_sync_history' = st.msh
  /\ heap' = st.heap
  /\ w_data' = st.data
  /\ csi_log' = LogAppend(csi_log, w_dev, st)
  /\ last_call' = [last_call EXCEPT !.warn = @ \/ st.warn,
                                    !.appended = @ \/ Len(st.heap) > Len(heap)]
  /\ UNCHANGED <<newVars, decoderVars, lock, n_updates, w_dev, w_calls, r_pc, r_snap,
                 r_calls, snapshot, committed, snap_base>>

WRelease ==
  /\ w_pc = "release"
  /\ w_pc' = "idle"
  /\ lock' = "free"
  /\ n_updates' = n_updates + 1
  /\ committed' = devices
  /\ UNCHANGED <<newVars, decoderVars, devices, master_sync_history, heap, csi_log,
                 last_call, w_dev, w_data, w_calls, r_pc, r_snap, r_calls,
                 snapshot, snap_base>>

RCall ==
  /\ r_pc = "idle" /\ r_calls < MaxCalls
  /\ r_pc' = "lock" /\ r_calls' = r_calls + 1
  /\ UNCHANGED <<newVars, decoderVars, storeVars, w_pc, w_dev, w_data, w_calls, r_snap,
                 snapshot, committed, snap_base>>

RAcquire ==
  /\ r_pc = "lock" /\ CanAcquire(lock)
  /\ lock' = "reader"
  /\ r_pc' = "copy"
  /\ r_snap' = <<>>
  /\ UNCHANGED <<newVars, decoderVars, devices, master_sync_history, heap, csi_log,
                 last_call, n_updates, w_pc, w_dev, w_data, w_calls, r_calls,
                 snapshot, committed, snap_base>>

\* One iteration of "for d_id, vals in self.devices.items()".
RCopy ==
  /\ r_pc = "copy"
  /\ \E d \in DOMAIN devices \ DOMAIN r_snap :
       r_snap' = [x \in DOMAIN r_snap \cup {d} |->
                    IF x = d THEN CopyDevice(devices[d]) ELSE r_snap[x]]
  /\ UNCHANGED <<newVars, decoderVars, storeVars, w_pc, w_dev, w_data, w_calls, r_pc,
                 r_calls, snapshot, committed, snap_base>>

RReturn ==
  /\ r_pc = "copy"
  /\ DOMAIN devices \subseteq DOMAIN r_snap
  /\ r_pc' = "idle"
  /\ lock' = "free"
  /\ snapshot' = Some(r_snap)
  /\ snap_base' = committed
  /\ UNCHANGED <<newVars, decoderVars, devices, master_sync_history, heap, csi_log,
                 last_call, n_updates, w_pc, w_dev, w_data, w_calls, r_snap,
                 r_calls, committed>>

\* ------------------------------------------------------------ input sets
SyncCounts == {5, 6}
Timestamps == {900, 1000, 1001000}
Opt(S) == {None} \cup {Some(x) : x \in S}
CsiA == JsonList(<<0, 3>>)
CsiB == JsonList(<<4>>)

SyncRecords ==
  {RecordOf(sc, ts, None, csi, {}) :
     sc \in Opt(SyncCounts), ts \in Opt(Timestamps), csi \in Opt({CsiA})}

CsiRecords ==
  {RecordOf(None, Some(900), None, Some(CsiA), {}),
   RecordOf(None, None, None, Some(CsiB), {}),
   RecordOf(None, Some(1000), None, Some(JsonScalar), {}),
   RecordOf(None, None, Some(-50), None, {})}

ThreadRecords ==
  {RecordOf(Some(5), Some(1000), Some(-50), Some(CsiA), {"IPAddress", "FreeHeap"}),
   RecordOf(Some(5), Some(900), None, Some(CsiB), {}),
   RecordOf(None, None, Some(-50), None, {"Gateway", "Netmask", "FreeInternalHeap"})}

DecoderNext == \E ch \in Chars : FeedChar(ch)

SpecDecoder == Init /\ [][DecoderNext]_vars

SyncNext ==
  \E d \in DeviceIds, data \in SyncRecords :
    n_updates < MaxUpdates /\ UpdateDevice(d, data)

SpecSync == Init /\ [][SyncNext]_vars

CsiNext ==
  \E d \in {MASTER_ID, SLAVE_ID}, data \in CsiRecords :
    n_updates < MaxCsiUpdates /\ UpdateDevice(d, data)

SpecCsi == Init /\ [][CsiNext]_vars

ThreadsNext ==
  \/ \E d \in DeviceIds, data \in ThreadRecords : WCall(d, data)
  \/ WAcquire
  \/ WStep("ensure", "sync", EnsureStep(Work, w_dev))
  \/ WStep("sync", "adjust", SyncStep(Work, w_dev))
  \/ WStep("adjust", "rssi", AdjustStep(Work, w_dev))
  \/ WStep("rssi", "csi", RssiStep(Work, w_dev))
  \/ WStep("csi", "info", CsiStep(Work, w_dev))
  \/ WStep("info", "release", InfoStep(Work, w_dev))
  \/ WRelease
  \/ RCall
  \/ RAcquire
  \/ RCopy
  \/ RReturn

SpecThreads == Init /\ [][ThreadsNext]_vars

\* ====================================================== main.py pipeline
\* In this part a queue item is the record one DataAcquisition thread put
\* (lines 52-54), with the number of that record on its port.
UNLISTED_ID == "AA:BB:CC:DD:EE:FF"
COORDS == {MASTER_ID, SLAVE_ID}

\* The parsed object with its identity keys, tagged data["__port__"] = port.
WithIdentity(data, devid, mac, port) ==
  LET keys == DOMAIN data \cup {"__port__"}
              \cup (IF devid # None THEN {"DeviceID"} ELSE {})
              \cup (IF mac # None THEN {"MAC"} ELSE {})
  IN [k \in keys |->
        IF k = "DeviceID" THEN devid[1]
        ELSE IF k = "MAC" THEN mac[1]
        ELSE IF k = "__port__" THEN port
        ELSE data[k]]

\* Variant of QueueGet: the newest item is taken first.
QueueGet_lifo(q) == [item |-> Last(q), rest |-> SubSeq(q, 1, Len(q) - 1)]

\* data_queue.get / get_nowait on a non-empty queue.
QueueGet(q) == [item |-> Head(q), rest |-> Tail(q)]

\* Lines 34-39 and 50-55.
ResolveId(data) ==
  IF "DeviceID" \in DOMAIN data THEN Some(data["DeviceID"])
  ELSE IF "MAC" \in DOMAIN data THEN Some(data["MAC"])
  ELSE None

\* Variant of Listed: every id passes.
Listed_any(id, coords) == TRUE

\* "device_id not in device_coords", negated.
Listed(id, coords) == id \in coords

\* What consumer_loop does with one dequeued record.  Reading device_coords
\* before main has bound it raises NameError, which nothing catches.
Dispatch(data, coords) ==
  LET id == ResolveId(data) IN
    IF id = None THEN [outcome |-> "no_identity", id |-> None]
    ELSE IF coords = None THEN [outcome |-> "name_error", id |-> id]
    ELSE IF ~Listed(id[1], coords[1]) THEN [outcome |-> "unlisted", id |-> id]
    ELSE [outcome |-> "applied", id |-> id]

\* A blocking call of task t has returned.
Blocked(t, signalled) ==
  IF signalled THEN [blocks EXCEPT ![t] = @ + 1] ELSE blocks

\* ------------------------------------------------ DataAcquisition threads
SrcCheck(p) ==
  /\ src_pc[p] = "check"
  /\ src_pc' = [src_pc EXCEPT ![p] = IF src_stop[p] THEN "done" ELSE "read"]
  /\ UNCHANGED <<framerVars, data_queue, storeVars, threadVars, anaVars,
                 sent, src_stop, device_coords, c_pc, stop_flag, disp_log,
                 frame_origin, mainVars>>

\* readline returned a line that completes one record.
SrcReadPut(p, rec) ==
  /\ src_pc[p] = "read"
  /\ src_pc' = [src_pc EXCEPT ![p] = "check"]
  /\ sent' = [sent EXCEPT ![p] = @ + 1]
  /\ data_queue' = Append(data_queue, [data |-> rec, k |-> sent[p] + 1])
  /\ blocks' = Blocked(p, src_stop[p])
  /\ UNCHANGED <<framerVars, storeVars, threadVars, anaVars, src_stop,
                 device_coords, c_pc, stop_flag, disp_log, frame_origin, m_pc>>

\* readline timed out, or its line completed no record.
SrcReadNothing(p) ==
  /\ src_pc[p] = "read"
  /\ src_pc' = [src_pc EXCEPT ![p] = "check"]
  /\ blocks' = Blocked(p, src_stop[p])
  /\ UNCHANGED <<framerVars, data_queue, storeVars, threadVars, anaVars, sent,
                 src_stop, device_coords, c_pc, stop_flag, disp_log,
                 frame_origin, m_pc>>

\* --------------------------------------------------------- consumer_loop
\* Variant of CCheck: the loop condition never ends the loop.
CCheck_ignoring_stop ==
  /\ c_pc = "check"
  /\ c_pc' = "wait"
  /\ UNCHANGED <<framerVars, data_queue, storeVars, threadVars, anaVars,
                 sent, src_pc, src_stop, device_coords, stop_flag, disp_log,
                 frame_origin, mainVars>>

\* "while not stop_flag.is_set()" (line 30).
CCheck ==
  /\ c_pc = "check"
  /\ c_pc' = IF stop_flag THEN "done" ELSE "wait"
  /\ UNCHANGED <<framerVars, data_queue, storeVars, threadVars, anaVars,
                 sent, src_pc, src_stop, device_coords, stop_flag, disp_log,
                 frame_origin, mainVars>>

\* One record is dequeued and handled; skip and applied are where the loop
\* goes on after a dropped and after an applied record.
CTake(path, skip, applied) ==
  LET g == QueueGet(data_queue)
      data == g.item.data
      r == Dispatch(data, device_coords)
  IN /\ data_queue # <<>>
     /\ data_queue' = g.rest
     /\ disp_log' = Append(disp_log,
                           [port |-> data["__port__"], k |-> g.item.k,
                            data |-> data, outcome |-> r.outcome,
                            id |-> r.id, path |-> path,
                            left |-> Len(g.rest)])
     /\ IF r.outcome = "applied"
          THEN /\ StoreUpdate(r.id[1], data)
               /\ frame_origin' =
                    IF AppendsFrame(data)
                      THEN Append(frame_origin,
                                  [port |-> data["__port__"], k |-> g.item.k])
                      ELSE frame_origin
          ELSE UNCHANGED <<devices, master_sync_history, heap, csi_log,
                           last_call, n_updates, committed, frame_origin>>
     /\ c_pc' = IF r.outcome = "name_error" THEN "dead"
                ELSE IF r.outcome = "applied" THEN applied ELSE skip
     /\ UNCHANGED <<framerVars, lockVars, anaVars, sent, src_pc, src_stop,
                    device_coords, stop_flag, m_pc>>

\* data_queue.get(timeout=0.5) returned a record (lines 32-44); the two
\* "continue" statements go back to the head of the outer loop.
CFirst ==
  /\ c_pc = "wait"
  /\ CTake("first", "check", "drain")
  /\ blocks' = Blocked("consumer", stop_flag)

\* data_queue.get(timeout=0.5) raised queue.Empty (lines 64-65).
CTimeout ==
  /\ c_pc = "wait"
  /\ data_queue = <<>>
  /\ c_pc' = "check"
  /\ blocks' = Blocked("consumer", stop_flag)
  /\ UNCHANGED <<framerVars, data_queue, storeVars, threadVars, anaVars,
                 sent, src_pc, src_stop, device_coords, stop_flag, disp_log,
                 frame_origin, m_pc>>

\* data_queue.get_nowait() returned a record (lines 49-59).
CDrain ==
  /\ c_pc = "drain"
  /\ CTake("drain", "drain", "drain")
  /\ UNCHANGED blocks

\* data_queue.get_nowait() raised queue.Empty (lines 61-62).
CDrainEmpty ==
  /\ c_pc = "drain"
  /\ data_queue = <<>>
  /\ c_pc' = "check"
  /\ UNCHANGED <<framerVars, data_queue, storeVars, threadVars, anaVars,
                 sent, src_pc, src_stop, device_coords, stop_flag, disp_log,
                 frame_origin, mainVars>>

\* ------------------------------------------------------------------ main
\* device_coords = {...} (lines 72-77), after both kinds of thread started.
MAssign ==
  /\ m_pc = "assign"
  /\ device_coords' = Some(COORDS)
  /\ m_pc' = "wait_packets"
  /\ UNCHANGED <<framerVars, data_queue, storeVars, threadVars, anaVars,
                 sent, src_pc, src_stop, c_pc, stop_flag, disp_log,
                 frame_origin, blocks>>

\* Records a port can deliver: the first port carries the master board, the
\* second the slave board; a record may name a device that is not in
\* device_coords, or carry no identity key at all.
MasterPayload == RecordOf(Some(5), Some(1000), None, Some(CsiA), {})
SlavePayload == RecordOf(Some(5), Some(900), None, Some(CsiB), {})

PipeRecords(p) ==
  IF p = PORT
    THEN {WithIdentity(MasterPayload, Some(MASTER_ID), Some(UNLISTED_ID), p),
          WithIdentity(MasterPayload, Some(UNLISTED_ID), None, p)}
    ELSE {WithIdentity(SlavePayload, None, Some(SLAVE_ID), p),
          WithIdentity(SlavePayload, None, None, p)}

PipelineNext ==
  \/ \E p \in Ports : SrcCheck(p)
  \/ \E p \in Ports : \E rec \in PipeRecords(p) :
       sent[p] < MaxEmit /\ SrcReadPut(p, rec)
  \/ \E p \in Ports : SrcReadNothing(p)
  \/ CCheck
  \/ CFirst
  \/ CTimeout
  \/ CDrain
  \/ CDrainEmpty
  \/ MAssign

SpecPipeline == Init /\ [][PipelineNext]_vars

\* ====================================================== RadarAnalyzer.run
\* self.device_coords.items(): the keys in insertion order (main.py 72-77).
Roster == <<MASTER_ID, SLAVE_ID>>

\* dict[k] = v
Put(m, k, v) == [x \in DOMAIN m \cup {k} |-> IF x = k THEN v ELSE m[x]]

\* snapshot[device]["CSI"]: the frame dicts the copied list refers to.
FramesOf(snap, d) == [i \in 1..Len(snap[d].CSI) |-> heap[snap[d].CSI[i]]]

RECURSIVE SumDiffs(_, _)
SumDiffs(frames, i) ==
  IF i >= Len(frames) THEN 0
  ELSE (frames[i + 1].Timestamp[1] - frames[i].Timestamp[1])
       + SumDiffs(frames, i + 1)

\* calculate_sampling_rate: the exception it raises, or the rate as the
\* number of intervals over their sum (1 / mean, in microseconds).
calculate_sampling_rate(frames) ==
  IF Len(frames) < 2 THEN [raises |-> "ValueError", n |-> 0, span |-> 0]
  ELSE IF \E i \in 1..Len(frames) : frames[i].Timestamp = None
    THEN [raises |-> "TypeError", n |-> 0, span |-> 0]
  ELSE IF SumDiffs(frames, 1) <= 0
    THEN [raises |-> "ValueError", n |-> 0, span |-> 0]
  ELSE [raises |-> "", n |-> Len(frames) - 1, span |-> SumDiffs(frames, 1)]

\* Lines 95-99: the nonzero amplitudes of one subcarrier, in frame order.
AmpVals(frames, idx) ==
  LET kept == SelectSeq(frames,
                        LAMBDA f : idx < Len(f.CSI) /\ f.CSI[idx + 1] # 0)
  IN [i \in 1..Len(kept) |-> kept[i].CSI[idx + 1]]

\* doppler_analysis_all_subcarriers.  A subcarrier's result stands for the
\* STFT of its amplitude values at the sampling rate; the aggregated score
\* is the mean over valid subcarriers, or 0.0 (valid = 0) when there is none.
doppler_analysis_all_subcarriers(frames, rate) ==
  LET total_subcarriers == Len(frames[1].CSI)
      valid == {idx \in 0..(total_subcarriers - 1) :
                  Len(AmpVals(frames, idx)) >= 2}
  IN [results |-> [idx \in valid |-> [amp |-> AmpVals(frames, idx),
                                      n |-> rate.n, span |-> rate.span]],
      score |-> [valid |-> Cardinality(valid)]]

\* Where the loop goes after the device at Roster[i].
AfterDevice(i) ==
  IF i < Len(Roster) THEN [pc |-> "device", idx |-> i + 1]
  ELSE [pc |-> "sleep", idx |-> 0]

\* "while not self._stop_event.is_set()" (line 28).
ACheck ==
  /\ a_pc = "check"
  /\ a_stop \/ a_tick < MaxTicks
  /\ a_pc' = IF a_stop THEN "done" ELSE "snapshot"
  /\ UNCHANGED <<decoderVars, storeVars, threadVars, pipeVars, mainVars,
                 a_stop, a_snapshot, a_idx, a_pending, a_tick,
                 subcarrier_data, motion_scores, tick_out, pub_at_start,
                 plot_pc, plot_seen, n_reads>>

\* snapshot = self.device_status.get_all_devices() (line 30).
ASnapshot ==
  /\ a_pc = "snapshot"
  /\ lock = "free"
  /\ a_snapshot' = get_all_devices(devices)
  /\ a_tick' = a_tick + 1
  /\ a_idx' = 1
  /\ a_pc' = "device"
  /\ tick_out' = <<>>
  /\ pub_at_start' = [sub |-> subcarrier_data, score |-> motion_scores]
  /\ UNCHANGED <<decoderVars, storeVars, threadVars, pipeVars, mainVars,
                 a_stop, a_pending, subcarrier_data, motion_scores,
                 plot_pc, plot_seen, n_reads>>

\* The body of the for loop for one device, up to line 46: the device is
\* not in the snapshot, an exception is raised, or results are at hand.
DeviceOutcome(snap, d) ==
  IF d \notin DOMAIN snap
    THEN [kind |-> "absent", results |-> <<>>, score |-> [valid |-> 0]]
  ELSE LET frames == FramesOf(snap, d)
           rate == calculate_sampling_rate(frames)
       IN IF rate.raises = "ValueError"
            THEN [kind |-> "value_error", results |-> <<>>,
                  score |-> [valid |-> 0]]
          ELSE IF rate.raises = "TypeError"
            THEN [kind |-> "type_error", results |-> <<>>,
                  score |-> [valid |-> 0]]
          ELSE LET r == doppler_analysis_all_subcarriers(frames, rate)
               IN [kind |-> "ok", results |-> r.results, score |-> r.score]

\* One pass of the for loop up to and including line 47, or up to the
\* exception: ValueError is caught (50-52), anything else ends the thread.
ADevice ==
  /\ a_pc = "device"
  /\ LET d == Roster[a_idx]
         nxt == AfterDevice(a_idx)
         o == DeviceOutcome(a_snapshot, d)
     IN IF o.kind \in {"absent", "value_error"}
          THEN /\ tick_out' = Put(tick_out, d, o.kind)
               /\ a_pc' = nxt.pc /\ a_idx' = nxt.idx
               /\ UNCHANGED <<subcarrier_data, a_pending>>
        ELSE IF o.kind = "type_error"
          THEN /\ tick_out' = Put(tick_out, d, o.kind)
               /\ a_pc' = "dead"
               /\ UNCHANGED <<a_idx, subcarrier_data, a_pending>>
        ELSE /\ subcarrier_data' =
                  Put(subcarrier_data, d,
                      [tick |-> a_tick, results |-> o.results])
             /\ a_pending' = Some(o.score)
             /\ a_pc' = "store_score"
             /\ UNCHANGED <<a_idx, tick_out>>
  /\ UNCHANGED <<decoderVars, storeVars, threadVars, pipeVars, mainVars,
                 a_stop, a_snapshot, a_tick, motion_scores, pub_at_start,
                 plot_pc, plot_seen, n_reads>>

\* self.motion_scores[device] = aggregated_motion_score (line 48).
AStoreScore ==
  /\ a_pc = "store_score"
  /\ LET d == Roster[a_idx]
         nxt == AfterDevice(a_idx)
     IN /\ motion_scores' = Put(motion_scores, d,
                                [tick |-> a_tick, score |-> a_pending[1]])
        /\ tick_out' = Put(tick_out, d, "published")
        /\ a_pc' = nxt.pc /\ a_idx' = nxt.idx
  /\ a_pending' = None
  /\ UNCHANGED <<decoderVars, storeVars, threadVars, pipeVars, mainVars,
                 a_stop, a_snapshot, a_tick, subcarrier_data, pub_at_start,
                 plot_pc, plot_seen, n_reads>>

\* time.sleep(self.interval) (line 55).
ASleep ==
  /\ a_pc = "sleep"
  /\ a_pc' = "check"
  /\ blocks' = Blocked("analyzer", a_stop)
  /\ UNCHANGED <<decoderVars, storeVars, threadVars, pipeVars, m_pc,
                 a_stop, a_snapshot, a_idx, a_pending, a_tick,
                 subcarrier_data, motion_scores, tick_out, pub_at_start,
                 plot_pc, plot_seen, n_reads>>

\* Lines 32-52 as a whole, from the device at Roster[i] on: acc holds the
\* two result dicts, what became of each device, and whether an uncaught
\* exception has ended the thread.
RECURSIVE ProcessDevices(_, _, _, _)
ProcessDevices(i, snap, tick, acc) ==
  IF i > Len(Roster) \/ acc.dead THEN acc
  ELSE LET d == Roster[i]
           o == DeviceOutcome(snap, d)
       IN ProcessDevices(i + 1, snap, tick,
            IF o.kind = "ok"
              THEN [sub |-> Put(acc.sub, d, [tick |-> tick, results |-> o.results]),
                    score |-> Put(acc.score, d, [tick |-> tick, score |-> o.score]),
                    out |-> Put(acc.out, d, "published"),
                    dead |-> FALSE]
              ELSE [acc EXCEPT !.out = Put(@, d, o.kind),
                               !.dead = (o.kind = "type_error")])

\* One pass of the while loop body up to the sleep (lines 30-52), taken as
\* one step where the order of the two result assignments plays no part.
ATick ==
  /\ a_pc = "snapshot"
  /\ lock = "free"
  /\ LET snap == get_all_devices(devices)
         r == ProcessDevices(1, snap, a_tick + 1,
                             [sub |-> subcarrier_data, score |-> motion_scores,
                              out |-> <<>>, dead |-> FALSE])
     IN /\ a_snapshot' = snap
        /\ subcarrier_data' = r.sub
        /\ motion_scores' = r.score
        /\ tick_out' = r.out
        /\ a_pc' = IF r.dead THEN "dead" ELSE "sleep"
  /\ a_tick' = a_tick + 1
  /\ pub_at_start' = [sub |-> subcarrier_data, score |-> motion_scores]
  /\ UNCHANGED <<decoderVars, storeVars, threadVars, pipeVars, mainVars,
                 a_stop, a_idx, a_pending, plot_pc, plot_seen, n_reads>>

AnalyzerStep == ACheck \/ ATick \/ ASleep

\* =========================================== RadarPlotter.update_plots
\* The device whose spectrogram is drawn (radar.py line 140).
EXAMPLE_DEVICE == "E9:9C:25:06:E9:80"

\* The tick that produced m[d], if m has the key.
TickOf(m, d) == IF d \in DOMAIN m THEN Some(m[d].tick) ELSE None

\* Lines 67-122: the snapshot and the loop reading motion_scores.get(d_id)
\* for every device of the snapshot.
PlotReadScore ==
  /\ m_pc = "plot" /\ plot_pc = "idle" /\ n_reads < MaxReads
  /\ lock = "free"
  /\ plot_seen' = [score |-> IF EXAMPLE_DEVICE \in DOMAIN devices
                               THEN TickOf(motion_scores, EXAMPLE_DEVICE)
                               ELSE None,
                   sub |-> None]
  /\ plot_pc' = "spectrogram"
  /\ UNCHANGED <<decoderVars, storeVars, threadVars, pipeVars, mainVars,
                 a_pc, a_stop, a_snapshot, a_idx, a_pending, a_tick,
                 subcarrier_data, motion_scores, tick_out, pub_at_start,
                 n_reads>>

\* Lines 140-147: self.analyzer.subcarrier_data[example_device].
PlotReadSub ==
  /\ plot_pc = "spectrogram"
  /\ plot_seen' = [plot_seen EXCEPT
                     !.sub = TickOf(subcarrier_data, EXAMPLE_DEVICE)]
  /\ plot_pc' = "idle"
  /\ n_reads' = n_reads + 1
  /\ UNCHANGED <<decoderVars, storeVars, threadVars, pipeVars, mainVars,
                 a_pc, a_stop, a_snapshot, a_idx, a_pending, a_tick,
                 subcarrier_data, motion_scores, tick_out, pub_at_start>>

\* ============================================ main, from line 80 onwards
PortOrder == <<"/dev/ttyUSB0", "/dev/ttyACM0">>
StopPc == <<"stop_src_1", "stop_src_2">>
JoinPc == <<"join_src_1", "join_src_2">>

\* wait_for_packets returns (line 136); until then it polls and sleeps.
AllReady(devs, coords) ==
  \A d \in coords : d \in DOMAIN devs /\ Len(devs[d].CSI) >= MIN_PACKETS

MWaitPackets ==
  /\ m_pc = "wait_packets"
  /\ lock = "free"
  /\ AllReady(get_all_devices(devices), device_coords[1])
  /\ m_pc' = "start_analyzer"
  /\ UNCHANGED <<decoderVars, storeVars, threadVars, pipeVars, anaVars,
                 blocks>>

\* analyzer.start() (lines 83-84).
MStartAnalyzer ==
  /\ m_pc = "start_analyzer"
  /\ a_pc' = "check"
  /\ m_pc' = "plot"
  /\ UNCHANGED <<decoderVars, storeVars, threadVars, pipeVars, blocks,
                 a_stop, a_snapshot, a_idx, a_pending, a_tick,
                 subcarrier_data, motion_scores, tick_out, pub_at_start,
                 plot_pc, plot_seen, n_reads>>

\* radar_plotter.run() returns (line 87), then stop_flag.set() (line 90).
MSetStop ==
  /\ m_pc = "plot" /\ plot_pc = "idle"
  /\ stop_flag' = TRUE
  /\ m_pc' = "stop_analyzer"
  /\ UNCHANGED <<decoderVars, storeVars, threadVars, anaVars, blocks, sent,
                 src_pc, src_stop, device_coords, c_pc, disp_log,
                 frame_origin>>

\* analyzer.stop() (line 91).
MStopAnalyzer ==
  /\ m_pc = "stop_analyzer"
  /\ a_stop' = TRUE
  /\ m_pc' = "join_analyzer"
  /\ UNCHANGED <<decoderVars, storeVars, threadVars, pipeVars, blocks,
                 a_pc, a_snapshot, a_idx, a_pending, a_tick,
                 subcarrier_data, motion_scores, tick_out, pub_at_start,
                 plot_pc, plot_seen, n_reads>>

\* Thread.join returns once the thread's run has ended, normally or not.
Ended(pc) == pc \in {"done", "dead"}

\* analyzer.join() (line 92).
MJoinAnalyzer ==
  /\ m_pc = "join_analyzer"
  /\ Ended(a_pc)
  /\ m_pc' = StopPc[1]
  /\ UNCHANGED <<decoderVars, storeVars, threadVars, pipeVars, anaVars,
                 blocks>>

\* t.stop() (line 95).
MStopSrc(i) ==
  /\ m_pc = StopPc[i]
  /\ src_stop' = [src_stop EXCEPT ![PortOrder[i]] = TRUE]
  /\ m_pc' = JoinPc[i]
  /\ UNCHANGED <<decoderVars, storeVars, threadVars, anaVars, blocks, sent,
                 src_pc, device_coords, c_pc, stop_flag, disp_log,
                 frame_origin>>

\* t.join() (line 96).
MJoinSrc(i) ==
  /\ m_pc = JoinPc[i]
  /\ Ended(src_pc[PortOrder[i]])
  /\ m_pc' = IF i < Len(PortOrder) THEN StopPc[i + 1] ELSE "join_consumer"
  /\ UNCHANGED <<decoderVars, storeVars, threadVars, pipeVars, anaVars,
                 blocks>>

\* consumer_thread.join() (line 98).
MJoinConsumer ==
  /\ m_pc = "join_consumer"
  /\ Ended(c_pc)
  /\ m_pc' = "exit"
  /\ UNCHANGED <<decoderVars, storeVars, threadVars, pipeVars, anaVars,
                 blocks>>

MainShutdown ==
  \/ MStopAnalyzer
  \/ MJoinAnalyzer
  \/ \E i \in 1..Len(PortOrder) : MStopSrc(i)
  \/ \E i \in 1..Len(PortOrder) : MJoinSrc(i)
  \/ MJoinConsumer

\* -------------------------------------------------- the analysis model
\* The table is filled by whole update_device calls; main starts the
\* analyzer and the plotter once wait_for_packets lets it.
CsiZero == JsonList(<<0, 0>>)

AnalysisRecords ==
  {RecordOf(None, ts, None, Some(csi), {}) :
     ts \in Opt({900, 1000}), csi \in {CsiA, CsiZero}}

AnalysisNext ==
  \/ \E d \in COORDS : \E data \in AnalysisRecords :
       n_updates < MaxAnaUpdates /\ UpdateDevice(d, data)
  \/ MAssign
  \/ MWaitPackets
  \/ MStartAnalyzer
  \/ ACheck
  \/ ASnapshot
  \/ ADevice
  \/ AStoreScore
  \/ ASleep
  \/ PlotReadScore
  \/ PlotReadSub

SpecAnalysis == Init /\ [][AnalysisNext]_vars

\* ------------------------------------------------ the subcarrier model
\* Frames whose amplitude lists differ in length, analysed by whole ticks.
SubcarrierRecords ==
  {RecordOf(None, Some(ts), None, Some(csi), {}) :
     ts \in {900, 1000}, csi \in {CsiA, CsiB}}

SubcarrierNext ==
  \/ \E d \in COORDS : \E data \in SubcarrierRecords :
       n_updates < MaxSubUpdates /\ UpdateDevice(d, data)
  \/ MAssign
  \/ MWaitPackets
  \/ MStartAnalyzer
  \/ ACheck
  \/ ATick
  \/ ASleep

SpecSubcarrier == Init /\ [][SubcarrierNext]_vars

\* -------------------------------------------------- the shutdown model
\* The whole program, from thread start to the last join.  Each port
\* delivers the well-formed records of its board that main waits for.
ShutdownRecords(p) ==
  IF p = PORT THEN {WithIdentity(MasterPayload, Some(MASTER_ID), None, p)}
  ELSE {WithIdentity(SlavePayload, None, Some(SLAVE_ID), p)}

SrcStep(p) ==
  \/ SrcCheck(p)
  \/ \E rec \in ShutdownRecords(p) :
       sent[p] < MIN_PACKETS /\ SrcReadPut(p, rec)
  \/ SrcReadNothing(p)

ConsumerStep == CCheck \/ CFirst \/ CTimeout \/ CDrain \/ CDrainEmpty

ShutdownNext ==
  \/ \E p \in Ports : SrcStep(p)
  \/ ConsumerStep
  \/ AnalyzerStep
  \/ MAssign
  \/ MWaitPackets
  \/ MStartAnalyzer
  \/ MSetStop
  \/ MainShutdown

\* Fairness: a thread that can run is scheduled at some point, and every
\* blocking call returns (the serial read and the queue wait have timeouts,
\* the sleep is finite).  Only the weakest consequence is assumed: the
\* program does not halt while some thread can take a step.
SpecShutdown ==
  /\ Init
  /\ [][ShutdownNext]_vars
  /\ WF_vars(ShutdownNext)

\* ------------------------------------------------------- framer claims
\* C1: after a reset event (overflow, decode failure, stray '}'), a complete
\* parseable object fed next is put on the queue as exactly that object.
IsObject(w) == w # <<>> /\ w[1] = "{" /\ json_loads(w).ok

C1_RecoveryAfterReset ==
  (reset_seen /\ IsObject(since_reset))
    => /\ dec_event = "emit"
       /\ data_queue # <<>>
       /\ Last(data_queue) = Tagged(PORT, json_loads(since_reset).val)

\* Reference count for C2: scan the stream with the true nesting depth (a
\* '}' with nothing open belongs to no balanced substring) and count the
\* substrings from a depth-0 '{' to its matching '}' that parse.
RECURSIVE BalancedParseable(_, _, _, _)
BalancedParseable(w, i, depth, start) ==
  IF i > Len(w) THEN 0
  ELSE IF w[i] = "{"
    THEN BalancedParseable(w, i + 1, depth + 1, IF depth = 0 THEN i ELSE start)
  ELSE IF w[i] = "}" /\ depth = 0 THEN BalancedParseable(w, i + 1, 0, start)
  ELSE IF w[i] = "}"
    THEN (IF depth = 1 /\ IsObject(SubSeq(w, start, i)) THEN 1 ELSE 0)
         + BalancedParseable(w, i + 1, depth - 1, start)
  ELSE BalancedParseable(w, i + 1, depth, start)

\* C2: the number of records on the queue equals the number of balanced,
\* parseable {...} substrings of the input that start at depth 0.
C2_RecordCount == Len(data_queue) = BalancedParseable(stream, 1, 0, 0)

\* C3: the accumulation buffer never holds more than MAX_BUFFER_LEN
\* characters, whichever character was appended last.
C3_BufferBound == Len(buffer) <= MAX_BUFFER_LEN
\* -------------------------------------------------- DeviceStatus claims
Min(a, b) == IF a < b THEN a ELSE b
LastN(s, n) == SubSeq(s, Len(s) - n + 1, Len(s))
LogOf(d) == IF d \in DOMAIN csi_log THEN csi_log[d] ELSE <<>>
RawTimestamp(data) ==
  IF "Timestamp" \in DOMAIN data THEN Some(data["Timestamp"]) ELSE None

\* C4: a device's CSI history is the last min(n, MAX_CSI_FRAMES) of the n
\* frames appended to it, in append order; it never holds more than
\* MAX_CSI_FRAMES frames and its newest element is the frame appended last.
C4_BoundedFifoHistory ==
  \A d \in DOMAIN devices :
    LET log == LogOf(d) hist == devices[d].CSI IN
    /\ hist = LastN(log, Min(Len(log), MAX_CSI_FRAMES))
    /\ Len(hist) <= MAX_CSI_FRAMES
    /\ (log # <<>> => Last(hist) = Last(log))
    /\ (last_call.device = d /\ last_call.appended
          => heap[Last(hist)].CSI = last_call.data["CSI"].items)

C4_Witness ==
  \E d \in DOMAIN devices :
    /\ Len(LogOf(d)) > MAX_CSI_FRAMES
    /\ last_call.device = d /\ last_call.appended

\* The last call was a slave record with both sync fields.
SlaveSyncCall ==
  /\ last_call.device \in DeviceIds \ {MASTER_ID}
  /\ HasSync(last_call.data)

MatchedCall ==
  SlaveSyncCall /\ last_call.data["SyncCount"] \in DOMAIN master_sync_history

\* C5: after a slave record {SyncCount s, Timestamp t}, the device's offset
\* is m - t when the master recorded m for s, and is what it was before the
\* call when s is not in the master sync history.
C5_OffsetComputation ==
  SlaveSyncCall =>
    LET d == last_call.device
        s == last_call.data["SyncCount"]
        t == last_call.data["Timestamp"]
    IN IF s \in DOMAIN master_sync_history
         THEN devices[d].Offset = master_sync_history[s] - t
         ELSE devices[d].Offset = last_call.old_offset

\* master {5, 1000}, slave {5, 900}, then slave {6, ...}: the offset stays 100
C5_Witness ==
  /\ SlaveSyncCall /\ ~MatchedCall
  /\ 5 \in DOMAIN master_sync_history /\ master_sync_history[5] = 1000
  /\ last_call.data["SyncCount"] = 6
  /\ devices[last_call.device].Offset = 100

\* C6: a device's offset changes in a step only if the call was for that
\* device, carried SyncCount and Timestamp, and the SyncCount was in the
\* master sync history at that moment.
C6_OffsetFrame ==
  [][\A d \in DOMAIN devices :
       devices'[d].Offset # devices[d].Offset
         => /\ last_call'.device = d
            /\ HasSync(last_call'.data)
            /\ last_call'.data["SyncCount"] \in DOMAIN master_sync_history]_vars

\* a call that matches nothing was made while a slave holds a computed offset
C6_Witness ==
  /\ SLAVE_ID \in DOMAIN devices /\ devices[SLAVE_ID].Offset # 0
  /\ last_call.device = SLAVE_ID /\ ~MatchedCall
  /\ last_call.old_offset = devices[SLAVE_ID].Offset

\* C7: the master's offset is 0 in every state, and a frame appended for the
\* master is stored with the record's raw timestamp.
C7_MasterOffsetZero ==
  MASTER_ID \in DOMAIN devices =>
    /\ devices[MASTER_ID].Offset = 0
    /\ (last_call.device = MASTER_ID /\ last_call.appended
          => heap[Last(devices[MASTER_ID].CSI)].Timestamp
               = RawTimestamp(last_call.data))

\* the master re-sends a sync count it has recorded, with a CSI frame, while
\* a slave holds a computed offset
C7_Witness ==
  /\ last_call.device = MASTER_ID /\ HasSync(last_call.data)
  /\ last_call.appended
  /\ devices[MASTER_ID].LastSyncTimestamp # None
  /\ SLAVE_ID \in DOMAIN devices /\ devices[SLAVE_ID].Offset # 0

\* C8: a snapshot returned by get_all_devices is the table as a whole
\* update_device call left it: no partly applied record shows.
C8_SnapshotAtomic ==
  snapshot # None => snapshot[1] = get_all_devices(snap_base)

\* a snapshot of a non-empty table was returned, the writer is in the middle
\* of the next update and the reader waits for the lock again
C8_Witness ==
  /\ snapshot # None /\ DOMAIN snapshot[1] # {}
  /\ w_pc = "adjust" /\ r_pc = "lock"

\* C9: no CSI frame reachable from a snapshot is an object held by the table.
FrameObjects(table) ==
  UNION {{table[d].CSI[i] : i \in 1..Len(table[d].CSI)} : d \in DOMAIN table}

C9_SnapshotIsolation ==
  snapshot # None => FrameObjects(snapshot[1]) \cap FrameObjects(devices) = {}

\* C10: the drift warning is printed exactly when a slave record matched the
\* master history and the offset moved by more than 1,000,000; never on a
\* master record or an unmatched count.
C10_DriftWarning ==
  last_call.warn <=>
    (MatchedCall /\
     Abs(devices[last_call.device].Offset - last_call.old_offset) > 1000000)

\* a matched record moved the offset by exactly 1,000,000: no warning
C10_Witness ==
  /\ MatchedCall
  /\ Abs(devices[last_call.device].Offset - last_call.old_offset) = 1000000
  /\ ~last_call.warn
\* C19: the brace depth is never negative.
C19_DepthNonNegative == brace_level >= 0

\* C20: a frame appended from a record with raw Timestamp t is stored with
\* t plus the device's offset as it is after that record's sync handling; a
\* record without Timestamp stores no timestamp; LastSyncTimestamp is the raw
\* Timestamp of the record that set it.
C20_CorrectionOrder ==
  last_call.device \in DeviceIds =>
    LET d == last_call.device
        data == last_call.data
    IN /\ last_call.appended =>
            heap[Last(devices[d].CSI)].Timestamp =
              IF "Timestamp" \in DOMAIN data
                THEN Some(data["Timestamp"] + devices[d].Offset)
                ELSE None
       /\ HasSync(data) =>
            devices[d].LastSyncTimestamp = Some(data["Timestamp"])

\* a matched slave record changed the offset and appended a frame
C20_Witness ==
  /\ MatchedCall /\ last_call.appended
  /\ devices[last_call.device].Offset # last_call.old_offset
  /\ devices[last_call.device].Offset # 0
\* ------------------------------------------------------ pipeline claims
Entries == 1..Len(disp_log)
Applied(i) == disp_log[i].outcome = "applied"
AppliedFor(i, d) == Applied(i) /\ disp_log[i].id = Some(d)

\* The id the stated precedence gives: DeviceID, else MAC, else the port.
PrecedenceId(data) ==
  IF "DeviceID" \in DOMAIN data THEN data["DeviceID"]
  ELSE IF "MAC" \in DOMAIN data THEN data["MAC"]
  ELSE data["__port__"]

\* C11: every dequeued record is resolved to DeviceID, else MAC, else its
\* port; it is dropped for lack of identity only when it has none of them.
C11_IdentityResolution ==
  \A i \in Entries :
    IF disp_log[i].outcome = "no_identity"
      THEN {"DeviceID", "MAC", "__port__"} \cap DOMAIN disp_log[i].data = {}
      ELSE disp_log[i].id = Some(PrecedenceId(disp_log[i].data))

\* C12: only ids listed in device_coords are in the table; a record with an
\* unlisted id is never applied, on either path of the loop.
C12_AllowList ==
  /\ DOMAIN devices \subseteq COORDS
  /\ \A i \in Entries : Applied(i) => disp_log[i].id[1] \in COORDS

\* an unlisted record was dropped on the first-dequeue path and another on
\* the drain path
C12_Witness ==
  /\ DOMAIN devices # {}
  /\ \E i, j \in Entries :
       /\ disp_log[i].outcome = "unlisted" /\ disp_log[i].path = "first"
       /\ disp_log[j].outcome = "unlisted" /\ disp_log[j].path = "drain"

\* C13: records of one port are handled in the order the port put them, and
\* each device's CSI history lists a port's frames in that order.
C13_PerSourceOrder ==
  /\ \A i, j \in Entries :
       (i < j /\ disp_log[i].port = disp_log[j].port)
         => disp_log[i].k < disp_log[j].k
  /\ \A d \in DOMAIN devices :
       \A i, j \in 1..Len(devices[d].CSI) :
         LET fi == frame_origin[devices[d].CSI[i]]
             fj == frame_origin[devices[d].CSI[j]]
         IN (i < j /\ fi.port = fj.port) => fi.k < fj.k

\* two records of one port were applied to the same device, with a record
\* of the other port applied in between
C13_Witness ==
  \E i, j, l \in Entries :
    /\ i < l /\ l < j
    /\ Applied(i) /\ Applied(j) /\ Applied(l)
    /\ disp_log[i].port = disp_log[j].port /\ disp_log[i].id = disp_log[j].id
    /\ disp_log[l].port # disp_log[i].port
    /\ Len(devices[disp_log[i].id[1]].CSI) >= 2

SyncEntry(i, d) == AppliedFor(i, d) /\ HasSync(disp_log[i].data)
SameCount(i, j) == disp_log[i].data["SyncCount"] = disp_log[j].data["SyncCount"]
SnapshotOffset(d) == get_all_devices(devices)[d].Offset

\* C14 as stated: once the master's record {s, m} and the slave's record
\* {s, t} have both been dispatched, the slave's offset in get_all_devices()
\* is m - t, whatever the order in which the two ports enqueued them.
C14_EndToEndOffset ==
  \A i, j \in Entries :
    (SyncEntry(i, MASTER_ID) /\ SyncEntry(j, SLAVE_ID) /\ SameCount(i, j))
      => SnapshotOffset(SLAVE_ID)
           = disp_log[i].data["Timestamp"] - disp_log[j].data["Timestamp"]

\* The offset the dispatch order gives after the first n log entries: the
\* last slave record whose count the master had already delivered decides.
MastersBefore(n) == {i \in 1..(n - 1) : SyncEntry(i, MASTER_ID) /\ SameCount(i, n)}
MaxOf(S) == CHOOSE x \in S : \A y \in S : y <= x
RECURSIVE OffsetByOrder(_)
OffsetByOrder(n) ==
  IF n = 0 THEN 0
  ELSE IF SyncEntry(n, SLAVE_ID) /\ MastersBefore(n) # {}
    THEN disp_log[MaxOf(MastersBefore(n))].data["Timestamp"]
         - disp_log[n].data["Timestamp"]
  ELSE OffsetByOrder(n - 1)

\* C14 amended: the slave's offset is m - t when the master's record was
\* dispatched before the slave's; a slave record dispatched before any
\* master record with its count leaves the offset as it was.
C14_OffsetByDispatchOrder ==
  SLAVE_ID \in DOMAIN devices
    => SnapshotOffset(SLAVE_ID) = OffsetByOrder(Len(disp_log))

\* records of the two ports, master first: the slave's offset is 1000 - 900
C14_Witness ==
  \E i, j \in Entries :
    /\ i < j /\ SyncEntry(i, MASTER_ID) /\ SyncEntry(j, SLAVE_ID)
    /\ disp_log[i].port # disp_log[j].port
    /\ SnapshotOffset(SLAVE_ID) = 100
\* ------------------------------------------------------ analysis claims
Failed(d) == d \in DOMAIN tick_out /\ tick_out[d] \in {"value_error", "type_error"}
ResultOf(m, d) == IF d \in DOMAIN m THEN Some(m[d]) ELSE None
RosterSet == {Roster[i] : i \in 1..Len(Roster)}

\* C16: a failure while processing one roster device leaves that device's
\* published result as it was at the start of the tick, the other roster
\* devices are still processed in the tick, and the engine goes on running.
C16_FailureIsolation ==
  /\ a_pc # "dead"
  /\ \A d \in RosterSet :
       Failed(d) =>
         /\ ResultOf(subcarrier_data, d) = ResultOf(pub_at_start.sub, d)
         /\ ResultOf(motion_scores, d) = ResultOf(pub_at_start.score, d)
  /\ a_pc = "sleep" => DOMAIN tick_out = RosterSet

\* C17: a reader that saw both a score and a subcarrier result set of the
\* example device saw the two of one tick.
C17_SameTickPair ==
  (plot_pc = "idle" /\ plot_seen.score # None /\ plot_seen.sub # None)
    => plot_seen.score = plot_seen.sub

AllZero(frames) ==
  \A i \in 1..Len(frames) : \A j \in 1..Len(frames[i].CSI) : frames[i].CSI[j] = 0

Timestamped(frames) == \A i \in 1..Len(frames) : frames[i].Timestamp # None

\* C18: a device whose buffered frames hold only zero amplitudes raises no
\* uncaught error in the tick, and its published score stays as it was at
\* the start of the tick (unset or the previous value).  Stated here for
\* frames that all carry a timestamp.
C18_AllZeroDevice ==
  \A d \in DOMAIN tick_out :
    (/\ d \in DOMAIN a_snapshot
     /\ AllZero(FramesOf(a_snapshot, d))
     /\ Timestamped(FramesOf(a_snapshot, d)))
      => /\ tick_out[d] # "type_error"
         /\ ResultOf(motion_scores, d) = ResultOf(pub_at_start.score, d)

\* ------------------------------------------------------ shutdown claim
AllSignalled == stop_flag /\ a_stop /\ \A p \in Ports : src_stop[p]
AllEnded == Ended(c_pc) /\ Ended(a_pc) /\ \A p \in Ports : Ended(src_pc[p])

\* C15: once every task has been told to stop, every task leaves its loop
\* and main gets through all its joins; no task finishes more than one
\* blocking call (read, queue wait, sleep) after its own stop signal.
C15_ShutdownLiveness ==
  /\ [](\A t \in Tasks : blocks[t] <= 1)
  /\ AllSignalled ~> (AllEnded /\ m_pc = "exit")

\* main has exited after every task was caught inside a blocking call by
\* its stop signal
C15_Witness ==
  /\ m_pc = "exit" /\ AllSignalled /\ AllEnded
  /\ c_pc = "done" /\ a_pc = "done"
  /\ \A t \in Tasks : blocks[t] = 1
\* ------------------------------------------------------ dispatcher claims
\* C21: when the blocking wait has returned a record while more records
\* were queued, the next record is taken by the drain loop, whatever became
\* of the first one: the dispatcher does not go back to the stop test and
\* the wait with those records still queued.
C21_GreedyDrain ==
  \A i \in Entries :
    (/\ disp_log[i].path = "first"
     /\ disp_log[i].left > 0
     /\ disp_log[i].outcome # "name_error")
      => IF i < Len(disp_log) THEN disp_log[i + 1].path = "drain"
         ELSE c_pc = "drain"

\* C23: the dispatcher never reads device_coords before main has bound it,
\* so it never ends with the NameError of an unbound name.
C23_CoordsBoundBeforeUse ==
  /\ c_pc # "dead"
  /\ \A i \in Entries : disp_log[i].outcome # "name_error"
\* ------------------------------------------------------ history claim
\* C24: no step changes a frame that is already stored: every frame object
\* keeps its timestamp and amplitudes, whatever happens later to the
\* device's offset or to the master sync history.
C24_FramesNotRealigned ==
  [][/\ Len(heap') >= Len(heap)
     /\ \A i \in 1..Len(heap) : heap'[i] = heap[i]]_vars

\* a slave record has just changed the offset and appended a frame whose
\* timestamp is smaller than that of the frame stored before it
C24_Witness ==
  /\ MatchedCall /\ last_call.appended
  /\ LET d == last_call.device
         h == devices[d].CSI
     IN /\ devices[d].Offset # last_call.old_offset
        /\ Len(h) >= 2
        /\ heap[h[Len(h) - 1]].Timestamp # None
        /\ heap[h[Len(h)]].Timestamp[1] < heap[h[Len(h) - 1]].Timestamp[1]
        /\ last_call.data["Timestamp"] + last_call.old_offset
             >= heap[h[Len(h) - 1]].Timestamp[1]
\* ------------------------------------------------------ subcarrier claim
ShortestLen(frames) ==
  CHOOSE n \in {Len(frames[i].CSI) : i \in 1..Len(frames)} :
    \A i \in 1..Len(frames) : n <= Len(frames[i].CSI)

\* the nonzero amplitudes of index idx across the frames, oldest first
RECURSIVE NonzeroFrom(_, _, _)
NonzeroFrom(frames, idx, i) ==
  IF i > Len(frames) THEN <<>>
  ELSE (IF frames[i].CSI[idx + 1] # 0 THEN <<frames[i].CSI[idx + 1]>>
        ELSE <<>>) \o NonzeroFrom(frames, idx, i + 1)

\* C22: the subcarrier indices of a device's published result lie in
\* 0 .. L-1, L the length of the shortest buffered frame's amplitude list;
\* an index below L has a result exactly when at least 2 of its amplitudes
\* are nonzero, and the samples analysed are those amplitudes in order.
C22_SubcarrierSelection ==
  \A d \in DOMAIN tick_out :
    tick_out[d] = "published" =>
      LET frames == FramesOf(a_snapshot, d)
          L == ShortestLen(frames)
          res == subcarrier_data[d].results
      IN /\ DOMAIN res \subseteq 0..(L - 1)
         /\ \A idx \in 0..(L - 1) :
              LET nz == NonzeroFrom(frames, idx, 1)
              IN IF Len(nz) >= 2
                   THEN idx \in DOMAIN res /\ res[idx].amp = nz
                   ELSE idx \notin DOMAIN res
====
